---- MODULE Spec2Model ----
(***************************************************************************)
(* Model of heredity.py: brute-force exact inference of gene-count and     *)
(* trait posteriors over a family pedigree.                                *)
(*                                                                         *)
(* Numbers.  The program computes with Python floats.  The model computes  *)
(* the same expressions in exact rational arithmetic: a probability is a   *)
(* record [neg |-> sign, n |-> numerator, d |-> denominator], and a        *)
(* natural number is a little-endian sequence of limbs in base Base with   *)
(* no leading zero limb (zero is the empty sequence), because the values   *)
(* (products of up to 3 factors per person, each in hundredths) exceed the *)
(* 32-bit integers of TLC.  Every literal of the program is a multiple of  *)
(* 1/100 (0.5 = 50/100), so the literals are represented exactly.          *)
(* Rounding of floating point is not modelled.                             *)
(*                                                                         *)
(* Iteration order.  main() iterates over powerset(names) where names is a *)
(* Python set of strings: the order in which a set lists its elements is   *)
(* not fixed by the program (string hashing is randomized per process).    *)
(* The set names is built once and never modified, so it lists its         *)
(* elements in one order, chosen at its construction, in every call        *)
(* powerset(names); every set names - one_gene is a new set, which lists   *)
(* its elements in any order.                                              *)
(***************************************************************************)
EXTENDS Integers, Sequences, FiniteSets, TLC

(***************************************************************************)
(* Bounds                                                                  *)
(***************************************************************************)
\* the largest registry
MaxPeople == 3

\* the largest argument of powerset checked on its own
MaxSet == 4

\* the number of groups the combinations are split into
NumGroups == 2

\* the tallies are split into groups for the registries of at most this many
\* valid combinations
MaxGrouped == 9

(***************************************************************************)
(* Force(e, F) is F(e) with e evaluated once, whatever the number of times *)
(* F uses its argument.                                                    *)
(***************************************************************************)
Force(e, F(_)) == CHOOSE r \in {F(x) : x \in {e}} : TRUE

(***************************************************************************)
(* Natural numbers of arbitrary size                                       *)
(***************************************************************************)
Base == 100 * 100

RECURSIVE FromInt(_)
FromInt(k) == IF k = 0 THEN <<>> ELSE <<k % Base>> \o FromInt(k \div Base)

Limb(a, i) == IF i > Len(a) THEN 0 ELSE a[i]

\* the limbs from the i-th on of a + b, with carry c into the i-th
RECURSIVE BAddAt(_, _, _, _)
BAddAt(a, b, i, c) ==
    IF i > Len(a) /\ i > Len(b)
    THEN (IF c = 0 THEN <<>> ELSE <<c>>)
    ELSE Force(Limb(a, i) + Limb(b, i) + c,
               LAMBDA x : <<x % Base>> \o BAddAt(a, b, i + 1, x \div Base))

BAdd(a, b) == Force(a, LAMBDA x : Force(b, LAMBDA y : BAddAt(x, y, 1, 0)))

\* the limbs from the i-th on of a * m, with carry c into the i-th
RECURSIVE BMulLimbAt(_, _, _, _)
BMulLimbAt(a, m, i, c) ==
    IF i > Len(a)
    THEN (IF c = 0 THEN <<>> ELSE <<c>>)
    ELSE Force(a[i] * m + c,
               LAMBDA x : <<x % Base>> \o BMulLimbAt(a, m, i + 1, x \div Base))

BMulLimb(a, m) == IF m = 0 THEN <<>> ELSE BMulLimbAt(a, m, 1, 0)

BShift(a) == Force(a, LAMBDA x : IF x = <<>> THEN <<>> ELSE <<0>> \o x)

\* a * (the number of the limbs of b from the j-th on)
RECURSIVE BMulAt(_, _, _)
BMulAt(a, b, j) ==
    IF j > Len(b) THEN <<>>
    ELSE BAdd(BMulLimb(a, b[j]), BShift(BMulAt(a, b, j + 1)))

BMul(a, b) ==
    Force(a, LAMBDA x : Force(b, LAMBDA y :
        IF x = <<>> \/ y = <<>> THEN <<>> ELSE BMulAt(x, y, 1)))

RECURSIVE BLessFrom(_, _, _)
BLessFrom(a, b, i) ==
    IF i = 0 THEN FALSE
    ELSE IF a[i] # b[i] THEN a[i] < b[i]
    ELSE BLessFrom(a, b, i - 1)

BLess(a, b) ==
    Force(a, LAMBDA x : Force(b, LAMBDA y :
        IF Len(x) # Len(y) THEN Len(x) < Len(y) ELSE BLessFrom(x, y, Len(x))))

BLeq(a, b) == Force(a, LAMBDA x : Force(b, LAMBDA y : x = y \/ BLess(x, y)))

BZero == <<>>

BOne == <<1>>

\* a without its leading zero limbs (the last ones of the sequence)
RECURSIVE BTrimTo(_, _)
BTrimTo(a, k) ==
    IF k = 0 THEN <<>>
    ELSE IF a[k] = 0 THEN BTrimTo(a, k - 1)
    ELSE SubSeq(a, 1, k)

BTrim(a) == Force(a, LAMBDA x : BTrimTo(x, Len(x)))

\* the limbs from the i-th on of a - b, with borrow c from the i-th, for
\* a >= b
RECURSIVE BSubAt(_, _, _, _)
BSubAt(a, b, i, c) ==
    IF i > Len(a) THEN <<>>
    ELSE Force(a[i] - Limb(b, i) - c,
               LAMBDA x : IF x < 0
                          THEN <<x + Base>> \o BSubAt(a, b, i + 1, 1)
                          ELSE <<x>> \o BSubAt(a, b, i + 1, 0))

\* a - b for a >= b
BSub(a, b) == Force(a, LAMBDA x : Force(b, LAMBDA y : BTrim(BSubAt(x, y, 1, 0))))

(***************************************************************************)
(* Exact rationals: (-1)^neg * n / d, with neg = FALSE when n = 0          *)
(***************************************************************************)
Rat(n, d) == [neg |-> FALSE, n |-> FromInt(n), d |-> FromInt(d)]

RZero == [neg |-> FALSE, n |-> BZero, d |-> BOne]

ROne == [neg |-> FALSE, n |-> BOne, d |-> BOne]

RIsZero(x) == x.n = BZero

RNeg(x) == Force(x, LAMBDA u : [u EXCEPT !.neg = (~u.neg /\ u.n # BZero)])

\* the rational of sign neg (when it is not zero), numerator n, denominator d
Signed(neg, n, d) ==
    Force(n, LAMBDA m : [neg |-> (m # BZero /\ neg), n |-> m, d |-> d])

RMul(x, y) ==
    Force(x, LAMBDA u : Force(y, LAMBDA v :
        Signed(u.neg # v.neg, BMul(u.n, v.n), BMul(u.d, v.d))))

\* the sum of two numerators of the same denominator, with their signs
SignedSum(xneg, xn, yneg, yn, d) ==
    Force(xn, LAMBDA a : Force(yn, LAMBDA b :
        IF xneg = yneg THEN [neg |-> xneg, n |-> BAdd(a, b), d |-> d]
        ELSE IF a = b THEN [neg |-> FALSE, n |-> BZero, d |-> d]
        ELSE IF BLess(b, a) THEN [neg |-> xneg, n |-> BSub(a, b), d |-> d]
        ELSE [neg |-> yneg, n |-> BSub(b, a), d |-> d]))

RAdd(x, y) ==
    Force(x, LAMBDA u : Force(y, LAMBDA v :
        IF u.d = v.d
        THEN SignedSum(u.neg, u.n, v.neg, v.n, u.d)
        ELSE SignedSum(u.neg, BMul(u.n, v.d), v.neg, BMul(v.n, u.d),
                       BMul(u.d, v.d))))

RSub(x, y) == RAdd(x, RNeg(y))

\* x / y for y # 0
RDiv(x, y) ==
    Force(x, LAMBDA u : Force(y, LAMBDA v :
        Signed(u.neg # v.neg, BMul(u.n, v.d), BMul(u.d, v.n))))

REq(x, y) ==
    Force(x, LAMBDA u : Force(y, LAMBDA v :
        /\ u.neg = v.neg
        /\ IF u.d = v.d THEN u.n = v.n ELSE BMul(u.n, v.d) = BMul(v.n, u.d)))

\* |x| < |y|
RSmaller(u, v) ==
    IF u.d = v.d THEN BLess(u.n, v.n) ELSE BLess(BMul(u.n, v.d), BMul(v.n, u.d))

RLess(x, y) ==
    Force(x, LAMBDA u : Force(y, LAMBDA v :
        IF u.neg # v.neg THEN u.neg
        ELSE IF u.neg THEN RSmaller(v, u)
        ELSE RSmaller(u, v)))

RLeq(x, y) == Force(x, LAMBDA u : Force(y, LAMBDA v : REq(u, v) \/ RLess(u, v)))

RInUnit(x) == Force(x, LAMBDA u : RLeq(RZero, u) /\ RLeq(u, ROne))

(***************************************************************************)
(* PROBS, in hundredths                                                    *)
(***************************************************************************)
Hundredths(k) == Rat(k, 100)

PROBS_gene(k) == CASE k = 2 -> Hundredths(1)
                   [] k = 1 -> Hundredths(3)
                   [] k = 0 -> Hundredths(96)

PROBS_trait(k, t) == CASE k = 2 -> (IF t THEN Hundredths(65) ELSE Hundredths(35))
                       [] k = 1 -> (IF t THEN Hundredths(56) ELSE Hundredths(44))
                       [] k = 0 -> (IF t THEN Hundredths(1) ELSE Hundredths(99))

PROBS_mutation == Hundredths(1)

\* the expression 1 - PROBS["mutation"]
NoMutation == RSub(ROne, PROBS_mutation)

\* the literal 0.5
Half == Hundredths(50)

(***************************************************************************)
(* The registry                                                            *)
(***************************************************************************)
AllNames == <<"Harry", "James", "Lily", "Molly", "Arthur">>

None == "None"

\* the keys of a registry of n people, in the order the dict lists them
Keys(n) == [i \in 1..n |-> AllNames[i]]

NameSet(n) == {AllNames[i] : i \in 1..n}

Person == [mother : {None} \cup NameSet(MaxPeople),
           father : {None} \cup NameSet(MaxPeople),
           trait : {"True", "False", None}]

Parents(people, x) == {people[x].mother, people[x].father} \ {None}

RECURSIVE Ancestors(_, _, _)
Ancestors(people, x, k) ==
    IF k = 0 THEN {}
    ELSE LET ps == Parents(people, x) \cap DOMAIN people
         IN  ps \cup UNION {Ancestors(people, y, k - 1) : y \in ps}

\* load_data's stated precondition: mother and father both blank or both
\* names of the file; a pedigree has no cycles
ValidRegistry(people) ==
    /\ \A x \in DOMAIN people :
         /\ (people[x].mother = None) <=> (people[x].father = None)
         /\ Parents(people, x) \subseteq DOMAIN people
    /\ \A x \in DOMAIN people :
         x \notin Ancestors(people, x, Cardinality(DOMAIN people))

Registries(n) == {people \in [NameSet(n) -> Person] : ValidRegistry(people)}

\* the keys of people, in the order the dict lists them (the order of the rows)
KeysOf(people) == Keys(Cardinality(DOMAIN people))

(***************************************************************************)
(* joint_probability                                                       *)
(***************************************************************************)
\* PassesGene without the case of a parent with one copy
PassesGeneNoHalf(parent, one_gene, two_genes) ==
    IF parent \in two_genes THEN NoMutation ELSE PROBS_mutation

\* lines 165-177: the factor of one parent when the person has two copies
PassesGene(parent, one_gene, two_genes) ==
    IF parent \in two_genes THEN NoMutation
    ELSE IF parent \in one_gene THEN Half
    ELSE PROBS_mutation

\* KeepsGene without the case of a parent with one copy
KeepsGeneNoHalf(parent, one_gene, two_genes) ==
    IF parent \in two_genes THEN PROBS_mutation ELSE NoMutation

\* lines 255-267: the factor of one parent when the person has no copy
KeepsGene(parent, one_gene, two_genes) ==
    IF parent \in two_genes THEN PROBS_mutation
    ELSE IF parent \in one_gene THEN Half
    ELSE NoMutation

\* lines 198-234: father_not_mother + mother_not_father
ExactlyOne(father, mother, one_gene, two_genes) ==
    LET f1 == IF father \in two_genes THEN [fnm |-> RMul(ROne, NoMutation),
                                            mnf |-> RMul(ROne, PROBS_mutation)]
              ELSE IF father \in one_gene THEN [fnm |-> RMul(ROne, Half),
                                                mnf |-> RMul(ROne, Half)]
              ELSE [fnm |-> RMul(ROne, PROBS_mutation),
                    mnf |-> RMul(ROne, NoMutation)]
        f2 == IF mother \in two_genes THEN [fnm |-> RMul(f1.fnm, PROBS_mutation),
                                            mnf |-> RMul(f1.mnf, NoMutation)]
              ELSE IF mother \in one_gene THEN [fnm |-> RMul(f1.fnm, Half),
                                                mnf |-> RMul(f1.mnf, Half)]
              ELSE [fnm |-> RMul(f1.fnm, NoMutation),
                    mnf |-> RMul(f1.mnf, PROBS_mutation)]
    IN  RAdd(f2.fnm, f2.mnf)

\* lines 150-279: the body of the loop over people, for one person
individual_probability(people, person, one_gene, two_genes, have_trait) ==
    LET father == people[person].father
        mother == people[person].mother
        hasParents == father # None /\ mother # None
        t == person \in have_trait
    IN  IF person \in two_genes
        THEN LET g == IF hasParents
                      THEN RMul(RMul(ROne, PassesGene(father, one_gene, two_genes)),
                                PassesGene(mother, one_gene, two_genes))
                      ELSE RMul(ROne, PROBS_gene(2))
             IN  RMul(g, PROBS_trait(2, t))
        ELSE IF person \in one_gene
        THEN LET g == IF hasParents
                      THEN RMul(ROne, ExactlyOne(father, mother, one_gene, two_genes))
                      ELSE RMul(ROne, PROBS_gene(1))
             IN  RMul(g, PROBS_trait(1, t))
        ELSE LET g == IF hasParents
                      THEN RMul(RMul(ROne, KeepsGene(father, one_gene, two_genes)),
                                KeepsGene(mother, one_gene, two_genes))
                      ELSE RMul(ROne, PROBS_gene(0))
             IN  RMul(g, PROBS_trait(0, t))

\* JointFrom with probability += individual_probability
RECURSIVE JointFromAdding(_, _, _, _, _, _)
JointFromAdding(people, i, probability, one_gene, two_genes, have_trait) ==
    IF i > Len(KeysOf(people)) THEN probability
    ELSE Force(RAdd(probability,
                    individual_probability(people, KeysOf(people)[i],
                                           one_gene, two_genes, have_trait)),
               LAMBDA q : JointFromAdding(people, i + 1, q, one_gene, two_genes,
                                          have_trait))

RECURSIVE JointFrom(_, _, _, _, _, _)
JointFrom(people, i, probability, one_gene, two_genes, have_trait) ==
    IF i > Len(KeysOf(people)) THEN probability
    ELSE Force(RMul(probability,
                    individual_probability(people, KeysOf(people)[i],
                                           one_gene, two_genes, have_trait)),
               LAMBDA q : JointFrom(people, i + 1, q, one_gene, two_genes,
                                    have_trait))

joint_probability(people, one_gene, two_genes, have_trait) ==
    JointFrom(people, 1, ROne, one_gene, two_genes, have_trait)

(***************************************************************************)
(* powerset                                                                *)
(***************************************************************************)
\* the listings list(s) can produce: the sequences of the elements of s
Listings(s) ==
    {l \in [1..Cardinality(s) -> s] : \A i, j \in 1..Cardinality(s) :
                                         l[i] = l[j] => i = j}

\* itertools.combinations(l, r), as sequences of strictly increasing positions
\* in lexicographic order
RECURSIVE Combinations(_, _, _)
Combinations(n, r, from) ==
    IF r = 0 THEN << <<>> >>
    ELSE IF from > n THEN <<>>
    ELSE Force(Combinations(n, r - 1, from + 1),
               LAMBDA c : [i \in 1..Len(c) |-> <<from>> \o c[i]])
         \o Combinations(n, r, from + 1)

\* ChainFrom with range(len(s)) for range(len(s) + 1)
RECURSIVE ChainFromShort(_, _)
ChainFromShort(n, r) ==
    IF r >= n THEN <<>> ELSE Combinations(n, r, 1) \o ChainFromShort(n, r + 1)

RECURSIVE ChainFrom(_, _)
ChainFrom(n, r) ==
    IF r > n THEN <<>> ELSE Combinations(n, r, 1) \o ChainFrom(n, r + 1)

\* powerset(s) when list(s) lists s as l
powerset(l) ==
    Force(ChainFrom(Len(l), 0),
          LAMBDA c : [k \in 1..Len(c) |-> {l[c[k][j]] : j \in 1..Len(c[k])}])

(***************************************************************************)
(* update and normalize                                                    *)
(***************************************************************************)
\* lines 49-62: the tallies main() creates
ZeroTallies(people) ==
    [person \in DOMAIN people |->
        [gene |-> [k \in 0..2 |-> RZero], trait |-> [b \in BOOLEAN |-> RZero]]]

\* UpdatePerson with = for +=
UpdatePersonAssigning(probabilities, person, one_gene, two_genes, have_trait, p) ==
    LET k == IF person \in one_gene THEN 1
             ELSE IF person \in two_genes THEN 2
             ELSE 0
    IN  [probabilities EXCEPT ![person].gene[k] = p,
                              ![person].trait[person \in have_trait] = p]

\* UpdatePerson without the else branch of the trait
UpdatePersonNoElse(probabilities, person, one_gene, two_genes, have_trait, p) ==
    LET k == IF person \in one_gene THEN 1
             ELSE IF person \in two_genes THEN 2
             ELSE 0
    IN  Force([probabilities EXCEPT ![person].gene[k] = RAdd(@, p)],
              LAMBDA g : IF person \in have_trait
                         THEN [g EXCEPT ![person].trait[TRUE] = RAdd(@, p)]
                         ELSE g)

\* lines 300-318: the body of update's loop, for one person
UpdatePerson(probabilities, person, one_gene, two_genes, have_trait, p) ==
    LET k == IF person \in one_gene THEN 1
             ELSE IF person \in two_genes THEN 2
             ELSE 0
    IN  Force([probabilities EXCEPT ![person].gene[k] = RAdd(@, p)],
              LAMBDA g : [g EXCEPT ![person].trait[person \in have_trait] = RAdd(@, p)])

RECURSIVE UpdateFrom(_, _, _, _, _, _, _)
UpdateFrom(probabilities, keys, i, one_gene, two_genes, have_trait, p) ==
    IF i > Len(keys) THEN probabilities
    ELSE Force(UpdatePerson(probabilities, keys[i], one_gene, two_genes,
                            have_trait, p),
               LAMBDA u : UpdateFrom(u, keys, i + 1, one_gene, two_genes,
                                     have_trait, p))

update(probabilities, one_gene, two_genes, have_trait, p) ==
    UpdateFrom(probabilities, Keys(Cardinality(DOMAIN probabilities)), 1,
               one_gene, two_genes, have_trait, p)

\* lines 333-337
gene_norm(probabilities, person) ==
    RAdd(RAdd(RAdd(RZero, probabilities[person].gene[0]),
              probabilities[person].gene[1]),
         probabilities[person].gene[2])

\* line 344
trait_norm(probabilities, person) ==
    RAdd(probabilities[person].trait[TRUE], probabilities[person].trait[FALSE])

\* lines 340-341
NormalizeGene(probabilities, person) ==
    Force(gene_norm(probabilities, person),
          LAMBDA norm : [probabilities EXCEPT ![person].gene =
                            [k \in 0..2 |-> RDiv(probabilities[person].gene[k], norm)]])

\* NormalizeTrait with the norm computed again after the first division
NormalizeTraitLate(probabilities, person) ==
    Force([probabilities EXCEPT ![person].trait[TRUE] =
               RDiv(@, trait_norm(probabilities, person))],
          LAMBDA h : [h EXCEPT ![person].trait[FALSE] =
                         RDiv(@, trait_norm(h, person))])

\* lines 347-348
NormalizeTrait(probabilities, person) ==
    Force(trait_norm(probabilities, person),
          LAMBDA norm : [probabilities EXCEPT ![person].trait =
                            [b \in BOOLEAN |-> RDiv(probabilities[person].trait[b], norm)]])

\* normalize's loop from the i-th person on; a division by zero raises
\* ZeroDivisionError and leaves the tallies as they are at that point
RECURSIVE NormalizeFrom(_, _, _)
NormalizeFrom(probabilities, keys, i) ==
    IF i > Len(keys) THEN [probabilities |-> probabilities, raised |-> FALSE]
    ELSE IF RIsZero(gene_norm(probabilities, keys[i]))
    THEN [probabilities |-> probabilities, raised |-> TRUE]
    ELSE Force(NormalizeGene(probabilities, keys[i]),
               LAMBDA g : IF RIsZero(trait_norm(g, keys[i]))
                          THEN [probabilities |-> g, raised |-> TRUE]
                          ELSE Force(NormalizeTrait(g, keys[i]),
                                     LAMBDA t : NormalizeFrom(t, keys, i + 1)))

normalize(probabilities) ==
    NormalizeFrom(probabilities, Keys(Cardinality(DOMAIN probabilities)), 1)

\* fails_evidence without the test "is not None"
fails_evidence_unguarded(people, have_trait) ==
    \E person \in DOMAIN people :
        people[person].trait # (IF person \in have_trait THEN "True" ELSE "False")

\* lines 69-73
fails_evidence(people, have_trait) ==
    \E person \in DOMAIN people :
        /\ people[person].trait # None
        /\ people[person].trait # (IF person \in have_trait THEN "True" ELSE "False")

(***************************************************************************)
(* State                                                                   *)
(***************************************************************************)
VARIABLES
    people,         \* the registry load_data returned
    names_list,     \* the order in which the set names lists its elements
    pc,             \* where main() is
    probabilities,  \* the tallies
    ht_rest,        \* the subsets the loop over have_trait has still to visit
    og_rest,        \* the same for the loop over one_gene
    tg_rest,        \* the same for the loop over two_genes
    have_trait,     \* the loop variables, and the arguments of a call
    one_gene,
    two_genes,
    p,              \* the last joint probability
    calls,          \* history: the combinations passed to update so far
    repeated,       \* history: some combination was passed twice
    normalized,     \* history: how many times normalize has run
    partial,        \* the partial tallies of the groups, when the run is split
    split,          \* history: every group has accumulated some combination
    s,              \* powerset's argument, as list(s) lists it
    subsets         \* powerset's result

vars == <<people, names_list, pc, probabilities, ht_rest, og_rest, tg_rest, have_trait,
          one_gene, two_genes, p, calls, repeated, normalized, partial, split,
          s, subsets>>

names == DOMAIN people

Unset == <<>>

(***************************************************************************)
(* main                                                                    *)
(***************************************************************************)
\* the people whose trait is not recorded
Unknown(r) == {x \in DOMAIN r : r[x].trait = None}

\* a mother and a father are two people
DistinctParents(r) ==
    \A x \in DOMAIN r : r[x].mother = None \/ r[x].mother # r[x].father

\* The registries main() is run on: every valid registry of fewer than
\* MaxPeople people, and the valid registries of MaxPeople people in which
\* nobody's mother is also their father.
Inputs ==
    UNION {Registries(n) : n \in 0..(MaxPeople - 1)}
    \cup {r \in Registries(MaxPeople) : DistinctParents(r)}

Idle ==
    /\ names_list = <<>>
    /\ probabilities = Unset
    /\ ht_rest = <<>>
    /\ og_rest = <<>>
    /\ tg_rest = <<>>
    /\ p = RZero
    /\ calls = {}
    /\ repeated = FALSE
    /\ normalized = 0
    /\ partial = Unset
    /\ split = FALSE
    /\ s = <<>>
    /\ subsets = <<>>

Init ==
    /\ people \in Inputs
    /\ pc = "start"
    /\ have_trait = {}
    /\ one_gene = {}
    /\ two_genes = {}
    /\ Idle

\* lines 49-66: create the tallies, evaluate powerset(names)
Start ==
    /\ pc = "start"
    /\ probabilities' = ZeroTallies(people)
    /\ \E l \in Listings(names) : /\ names_list' = l
                                  /\ ht_rest' = powerset(l)
    /\ pc' = "have_trait"
    /\ UNCHANGED <<people, og_rest, tg_rest, have_trait, one_gene, two_genes, p,
                   calls, repeated, normalized, partial, split, s, subsets>>

\* lines 66-78: one iteration of the loop over have_trait, up to the inner loop
NextHaveTrait ==
    /\ pc = "have_trait"
    /\ IF ht_rest = <<>>
       THEN /\ pc' = "normalize"
            /\ UNCHANGED <<have_trait, ht_rest, og_rest>>
       ELSE /\ have_trait' = Head(ht_rest)
            /\ ht_rest' = Tail(ht_rest)
            /\ IF fails_evidence(people, Head(ht_rest))
               THEN /\ pc' = "have_trait"
                    /\ UNCHANGED og_rest
               ELSE /\ og_rest' = powerset(names_list)
                    /\ pc' = "one_gene"
    /\ UNCHANGED <<people, names_list, probabilities, tg_rest, one_gene, two_genes, p,
                   calls, repeated, normalized, partial, split, s, subsets>>

\* NextOneGene with powerset(names) for powerset(names - one_gene)
NextOneGeneAll ==
    /\ pc = "one_gene"
    /\ IF og_rest = <<>>
       THEN /\ pc' = "have_trait"
            /\ UNCHANGED <<one_gene, og_rest, tg_rest>>
       ELSE /\ one_gene' = Head(og_rest)
            /\ og_rest' = Tail(og_rest)
            /\ tg_rest' = powerset(names_list)
            /\ pc' = "two_genes"
    /\ UNCHANGED <<people, names_list, probabilities, ht_rest, have_trait, two_genes, p,
                   calls, repeated, normalized, partial, split, s, subsets>>

\* lines 78-79: one iteration of the loop over one_gene, up to the inner loop
NextOneGene ==
    /\ pc = "one_gene"
    /\ IF og_rest = <<>>
       THEN /\ pc' = "have_trait"
            /\ UNCHANGED <<one_gene, og_rest, tg_rest>>
       ELSE /\ one_gene' = Head(og_rest)
            /\ og_rest' = Tail(og_rest)
            /\ \E l \in Listings(names \ Head(og_rest)) : tg_rest' = powerset(l)
            /\ pc' = "two_genes"
    /\ UNCHANGED <<people, names_list, probabilities, ht_rest, have_trait, two_genes, p,
                   calls, repeated, normalized, partial, split, s, subsets>>

\* NextTwoGenes with the call of normalize indented into the loop
NextTwoGenesNormalizing ==
    /\ pc = "two_genes"
    /\ IF tg_rest = <<>>
       THEN /\ pc' = "one_gene"
            /\ UNCHANGED <<two_genes, tg_rest, p, probabilities, calls, repeated,
                           normalized>>
       ELSE LET tg == Head(tg_rest)
                combination == <<have_trait, one_gene, tg>>
            IN  /\ two_genes' = tg
                /\ tg_rest' = Tail(tg_rest)
                /\ p' = joint_probability(people, one_gene, tg, have_trait)
                /\ probabilities' =
                       normalize(update(probabilities, one_gene, tg, have_trait,
                                        p')).probabilities
                /\ normalized' = normalized + 1
                /\ calls' = calls \cup {combination}
                /\ repeated' = (repeated \/ combination \in calls)
                /\ pc' = "two_genes"
    /\ UNCHANGED <<people, names_list, ht_rest, og_rest, have_trait, one_gene,
                   partial, split, s, subsets>>

\* lines 79-83: one iteration of the loop over two_genes
NextTwoGenes ==
    /\ pc = "two_genes"
    /\ IF tg_rest = <<>>
       THEN /\ pc' = "one_gene"
            /\ UNCHANGED <<two_genes, tg_rest, p, probabilities, calls, repeated>>
       ELSE LET tg == Head(tg_rest)
                combination == <<have_trait, one_gene, tg>>
            IN  /\ two_genes' = tg
                /\ tg_rest' = Tail(tg_rest)
                /\ p' = joint_probability(people, one_gene, tg, have_trait)
                /\ probabilities' = update(probabilities, one_gene, tg, have_trait, p')
                /\ calls' = calls \cup {combination}
                /\ repeated' = (repeated \/ combination \in calls)
                /\ pc' = "two_genes"
    /\ UNCHANGED <<people, names_list, ht_rest, og_rest, have_trait, one_gene,
                   normalized, partial, split, s, subsets>>

\* line 86
Normalize ==
    /\ pc = "normalize"
    /\ \E r \in {normalize(probabilities)} :
           /\ probabilities' = r.probabilities
           /\ pc' = IF r.raised THEN "ZeroDivisionError" ELSE "done"
    /\ normalized' = normalized + 1
    /\ UNCHANGED <<people, names_list, ht_rest, og_rest, tg_rest, have_trait,
                   one_gene, two_genes, p, calls, repeated, partial, split, s, subsets>>

Next == Start \/ NextHaveTrait \/ NextOneGene \/ NextTwoGenes \/ Normalize

Spec == Init /\ [][Next]_vars

\* The runs checked for termination and with split tallies: those over the inputs of fewer than
\* MaxPeople people, and over the inputs of MaxPeople people whose traits are
\* all recorded.
InitSmall ==
    /\ Init
    /\ Cardinality(names) < MaxPeople \/ Unknown(people) = {}

\* main() is sequential code that nothing suspends: while a step of it is
\* possible, a step is taken
FairSpec == InitSmall /\ [][Next]_vars /\ WF_vars(Next)

(***************************************************************************)
(* joint_probability on its own                                            *)
(***************************************************************************)
\* every call on a valid registry with one_gene and two_genes disjoint
InitJoint ==
    /\ people \in UNION {Registries(n) : n \in 0..MaxPeople}
    /\ pc = "call"
    /\ have_trait \in SUBSET names
    /\ one_gene \in SUBSET names
    /\ two_genes \in SUBSET (names \ one_gene)
    /\ Idle

JointProbabilityCall ==
    /\ pc = "call"
    /\ p' = joint_probability(people, one_gene, two_genes, have_trait)
    /\ pc' = "return"
    /\ UNCHANGED <<people, names_list, probabilities, ht_rest, og_rest, tg_rest,
                   have_trait, one_gene, two_genes, calls, repeated, normalized,
                   partial, split, s, subsets>>

NextJoint == JointProbabilityCall

SpecJoint == InitJoint /\ [][NextJoint]_vars

(***************************************************************************)
(* powerset on its own                                                     *)
(***************************************************************************)
InitPowerset ==
    /\ people = <<>>
    /\ pc = "call"
    /\ have_trait = {}
    /\ one_gene = {}
    /\ two_genes = {}
    /\ names_list = <<>>
    /\ probabilities = Unset
    /\ ht_rest = <<>>
    /\ og_rest = <<>>
    /\ tg_rest = <<>>
    /\ p = RZero
    /\ calls = {}
    /\ repeated = FALSE
    /\ normalized = 0
    /\ partial = Unset
    /\ split = FALSE
    /\ s \in UNION {Listings(x) : x \in SUBSET NameSet(MaxSet)}
    /\ subsets = <<>>

PowersetCall ==
    /\ pc = "call"
    /\ subsets' = powerset(s)
    /\ pc' = "return"
    /\ UNCHANGED <<people, names_list, probabilities, ht_rest, og_rest, tg_rest,
                   have_trait, one_gene, two_genes, p, calls, repeated,
                   normalized, partial, split, s>>

NextPowerset == PowersetCall

SpecPowerset == InitPowerset /\ [][NextPowerset]_vars

(***************************************************************************)
(* main with the combinations split into groups (spec.md, section 5): each *)
(* combination is accumulated by update into the partial tallies of one    *)
(* group, and the partial tallies are summed before normalize.             *)
(***************************************************************************)
RECURSIVE Pow(_, _)
Pow(b, e) == IF e = 0 THEN 1 ELSE b * Pow(b, e - 1)

\* the number of combinations main() passes to update
NumCombinations(r) ==
    Pow(2, Cardinality(Unknown(r))) * Pow(3, Cardinality(DOMAIN r))

Groups(r) == IF NumCombinations(r) <= MaxGrouped THEN 1..NumGroups ELSE {1}

RECURSIVE SumTallies(_, _)
SumTallies(parts, g) ==
    IF g = 0 THEN ZeroTallies(people)
    ELSE Force(SumTallies(parts, g - 1),
               LAMBDA rest :
                 [person \in DOMAIN rest |->
                    [gene |-> [k \in 0..2 |->
                                 RAdd(rest[person].gene[k], parts[g][person].gene[k])],
                     trait |-> [b \in BOOLEAN |->
                                 RAdd(rest[person].trait[b], parts[g][person].trait[b])]]])

Merge(parts) == SumTallies(parts, NumGroups)

StartGroups ==
    /\ pc = "start"
    /\ probabilities' = ZeroTallies(people)
    /\ partial' = [g \in 1..NumGroups |-> ZeroTallies(people)]
    /\ \E l \in Listings(names) : /\ names_list' = l
                                  /\ ht_rest' = powerset(l)
    /\ pc' = "have_trait"
    /\ UNCHANGED <<people, og_rest, tg_rest, have_trait, one_gene, two_genes, p,
                   calls, repeated, normalized, split, s, subsets>>

\* some combination has been accumulated into these tallies
Used(tallies) == \E x \in DOMAIN tallies : ~RIsZero(tallies[x].trait[TRUE])
                                           \/ ~RIsZero(tallies[x].trait[FALSE])

GroupTwoGenes ==
    /\ pc = "two_genes"
    /\ IF tg_rest = <<>>
       THEN /\ pc' = "one_gene"
            /\ UNCHANGED <<two_genes, tg_rest, p, partial, calls, repeated, split>>
       ELSE LET tg == Head(tg_rest)
                combination == <<have_trait, one_gene, tg>>
            IN  /\ two_genes' = tg
                /\ tg_rest' = Tail(tg_rest)
                /\ p' = joint_probability(people, one_gene, tg, have_trait)
                /\ \E g \in Groups(people) :
                       partial' = [partial EXCEPT
                                     ![g] = update(@, one_gene, tg, have_trait, p')]
                /\ split' = \A g \in 1..NumGroups : Used(partial'[g])
                /\ calls' = calls \cup {combination}
                /\ repeated' = (repeated \/ combination \in calls)
                /\ pc' = "two_genes"
    /\ UNCHANGED <<people, names_list, probabilities, ht_rest, og_rest, have_trait,
                   one_gene, normalized, s, subsets>>

\* the partial tallies are summed into the tallies and released
MergeGroups ==
    /\ pc = "normalize"
    /\ partial # Unset
    /\ probabilities' = Merge(partial)
    /\ partial' = Unset
    /\ UNCHANGED <<people, names_list, pc, ht_rest, og_rest, tg_rest, have_trait,
                   one_gene, two_genes, p, calls, repeated, normalized, split, s,
                   subsets>>

NormalizeMerged ==
    /\ partial = Unset
    /\ Normalize

NextGroups ==
    \/ StartGroups
    \/ NextHaveTrait
    \/ NextOneGene
    \/ GroupTwoGenes
    \/ MergeGroups
    \/ NormalizeMerged

SpecGroups == InitSmall /\ [][NextGroups]_vars

(***************************************************************************)
(* Properties                                                              *)
(***************************************************************************)
Sum3(f) == RAdd(RAdd(f[0], f[1]), f[2])

Sum2(f) == RAdd(f[TRUE], f[FALSE])

IsChild(r, x) == r[x].mother # None /\ r[x].father # None

\* C1: after a completed run over a valid non-empty registry, each person's
\* three gene-count values are in [0,1] and sum to 1, and each person's two
\* trait values are in [0,1] and sum to 1.
C1_FinalDistributions ==
    (pc = "done" /\ names # {}) =>
        \A person \in names :
            /\ \A k \in 0..2 : RInUnit(probabilities[person].gene[k])
            /\ REq(Sum3(probabilities[person].gene), ROne)
            /\ \A b \in BOOLEAN : RInUnit(probabilities[person].trait[b])
            /\ REq(Sum2(probabilities[person].trait), ROne)

\* a completed run over three people, one of them a child, with evidence, in
\* which every value of the child lies strictly between 0 and 1
C1_Witness ==
    /\ pc = "done"
    /\ Cardinality(names) = MaxPeople
    /\ \E x \in names :
         /\ IsChild(people, x)
         /\ \A k \in 0..2 : /\ RLess(RZero, probabilities[x].gene[k])
                            /\ RLess(probabilities[x].gene[k], ROne)
    /\ \E x \in names : people[x].trait = "True"

\* the probability that a parent passes a copy on, in hundredths
Transmits(parent, og, tg) ==
    IF parent \in tg THEN 99 ELSE IF parent \in og THEN 50 ELSE 1

CountOf(x, og, tg) == IF x \in tg THEN 2 ELSE IF x \in og THEN 1 ELSE 0

\* the gene-count factor of C2
GeneFactor(r, x, og, tg) ==
    LET k == CountOf(x, og, tg)
        tf == Transmits(r[x].father, og, tg)
        tm == Transmits(r[x].mother, og, tg)
    IN  IF ~IsChild(r, x)
        THEN Rat(CASE k = 0 -> 96 [] k = 1 -> 3 [] k = 2 -> 1, 100)
        ELSE Rat(CASE k = 2 -> tf * tm
                   [] k = 1 -> tf * (100 - tm) + tm * (100 - tf)
                   [] k = 0 -> (100 - tf) * (100 - tm),
                 100 * 100)

RECURSIVE ProductOver(_, _, _, _, _)
ProductOver(r, xs, og, tg, ht) ==
    IF xs = {} THEN ROne
    ELSE LET x == CHOOSE y \in xs : TRUE
         IN  RMul(RMul(GeneFactor(r, x, og, tg),
                       PROBS_trait(CountOf(x, og, tg), x \in ht)),
                  ProductOver(r, xs \ {x}, og, tg, ht))

HarryFamily ==
    [Harry |-> [mother |-> "Lily", father |-> "James", trait |-> None],
     James |-> [mother |-> None, father |-> None, trait |-> "True"],
     Lily |-> [mother |-> None, father |-> None, trait |-> "False"]]

IsHarryCase ==
    /\ people = HarryFamily
    /\ one_gene = {"Harry"}
    /\ two_genes = {"James"}
    /\ have_trait = {"James"}

\* 0.0026643247488 = 26643247488 / 10^13
HarryValue ==
    [neg |-> FALSE,
     n |-> BAdd(BMul(FromInt(266432), FromInt(100000)), FromInt(47488)),
     d |-> BMul(FromInt(10000000), FromInt(1000000))]

\* C2: joint_probability returns the product over all persons of the
\* gene-count factor (the prior for a founder, the transmission formula for a
\* child) and the trait factor; for the Harry/James/Lily family and
\* one_gene = {Harry}, two_genes = {James}, have_trait = {James} it returns
\* 0.0026643247488.
C2_JointIsProduct ==
    pc = "return" =>
        /\ REq(p, ProductOver(people, names, one_gene, two_genes, have_trait))
        /\ IsHarryCase => REq(p, HarryValue)

C2_Witness ==
    /\ pc = "return"
    /\ IsHarryCase
    /\ REq(p, HarryValue)

\* C3: the value joint_probability returns lies in [0,1].
C3_JointInUnit == pc = "return" => RInUnit(p)

\* a call for three people, a child with one copy among them, has returned a
\* value strictly between 0 and 1
C3_Witness ==
    /\ pc = "return"
    /\ Cardinality(names) = MaxPeople
    /\ \E x \in names : IsChild(people, x) /\ x \in one_gene
    /\ two_genes # {}
    /\ RLess(RZero, p)
    /\ RLess(p, ROne)

Range(l) == {l[i] : i \in 1..Len(l)}

\* C4: powerset(S) returns exactly 2^n pairwise distinct subsets of S, the
\* empty set and S among them (for n = 0 exactly the list of the empty set),
\* and does not modify S.
C4_Powerset ==
    /\ [](pc = "return" =>
            /\ Len(subsets) = Pow(2, Len(s))
            /\ \A i, j \in 1..Len(subsets) : subsets[i] = subsets[j] => i = j
            /\ \A i \in 1..Len(subsets) : subsets[i] \subseteq Range(s)
            /\ {} \in Range(subsets)
            /\ Range(s) \in Range(subsets)
            /\ Len(s) = 0 => subsets = << {} >>)
    /\ [][s' = s]_vars

C4_Witness ==
    /\ pc = "return"
    /\ Len(s) = MaxSet
    /\ Len(subsets) = Pow(2, MaxSet)

ConsistentWithEvidence(r, ht) ==
    \A x \in DOMAIN r : r[x].trait = None \/ (r[x].trait = "True" <=> x \in ht)

IsValidCombination(r, c) ==
    /\ c[1] \subseteq DOMAIN r
    /\ ConsistentWithEvidence(r, c[1])
    /\ c[2] \subseteq DOMAIN r
    /\ c[3] \subseteq DOMAIN r
    /\ c[2] \cap c[3] = {}

ValidCombinations(r) ==
    {c \in (SUBSET DOMAIN r) \X (SUBSET DOMAIN r) \X (SUBSET DOMAIN r) :
        IsValidCombination(r, c)}

\* C5: the driver calls joint_probability and update for exactly the
\* combinations (have_trait, one_gene, two_genes) with have_trait consistent
\* with every recorded trait and one_gene, two_genes disjoint, each exactly
\* once, and for no combination that contradicts a recorded trait.
C5_Enumeration ==
    /\ \A c \in calls : IsValidCombination(people, c)
    /\ ~repeated
    /\ pc \in {"normalize", "done"} => calls = ValidCombinations(people)

\* the enumeration is over, some subsets were excluded by the evidence
C5_Witness ==
    /\ pc = "normalize"
    /\ Cardinality(names) = MaxPeople
    /\ \E x \in names : people[x].trait = "True"
    /\ \E x \in names : people[x].trait = None
    /\ calls = ValidCombinations(people)
    /\ Cardinality(calls) < Pow(2, MaxPeople) * Pow(3, MaxPeople)

Prior(k) == Rat(CASE k = 0 -> 96 [] k = 1 -> 3 [] k = 2 -> 1, 100)

\* C6: in a registry where nobody has a recorded trait, the tallies the
\* driver has accumulated for a founder when the enumeration is over are
\* 0.96, 0.03 and 0.01 for 0, 1 and 2 copies, and so is the founder's
\* normalized gene-count distribution.
C6_FounderPrior ==
    (pc \in {"normalize", "done"} /\ Unknown(people) = names) =>
        \A x \in names :
            ~IsChild(people, x) =>
                \A k \in 0..2 : REq(probabilities[x].gene[k], Prior(k))

\* the enumeration is over for a family of a child and two founders without
\* recorded traits
C6_Witness ==
    /\ pc = "normalize"
    /\ Unknown(people) = names
    /\ Cardinality(names) = MaxPeople
    /\ \E x \in names : IsChild(people, x)
    /\ \E x \in names : ~IsChild(people, x) /\ REq(probabilities[x].gene[0], Prior(0))

\* the elements of set x in the order the sequence l lists them
RECURSIVE Listed(_, _)
Listed(l, x) ==
    IF l = <<>> THEN <<>>
    ELSE (IF Head(l) \in x THEN <<Head(l)>> ELSE <<>>) \o Listed(Tail(l), x)

\* The valid combinations of registry r in one fixed order (the sets listed
\* in the order of the rows).
RECURSIVE CombinationsOne(_, _, _, _)
CombinationsOne(r, ht, ogs, i) ==
    IF i > Len(ogs) THEN <<>>
    ELSE LET tgs == powerset(Listed(KeysOf(r), DOMAIN r \ ogs[i]))
         IN  [j \in 1..Len(tgs) |-> <<ht, ogs[i], tgs[j]>>]
             \o CombinationsOne(r, ht, ogs, i + 1)

RECURSIVE CombinationsTrait(_, _, _)
CombinationsTrait(r, hts, i) ==
    IF i > Len(hts) THEN <<>>
    ELSE (IF ConsistentWithEvidence(r, hts[i])
          THEN CombinationsOne(r, hts[i], powerset(KeysOf(r)), 1)
          ELSE <<>>)
         \o CombinationsTrait(r, hts, i + 1)

AddTallies(a, b) ==
    Force(a, LAMBDA u : Force(b, LAMBDA v :
        [x \in DOMAIN u |->
            [gene |-> [k \in 0..2 |-> RAdd(u[x].gene[k], v[x].gene[k])],
             trait |-> [t \in BOOLEAN |-> RAdd(u[x].trait[t], v[x].trait[t])]]]))

\* the tallies of the combinations cs[lo], ..., cs[hi]: the sum of the
\* tallies of the two halves
RECURSIVE TalliesOf(_, _, _, _)
TalliesOf(r, cs, lo, hi) ==
    IF lo > hi THEN ZeroTallies(r)
    ELSE IF lo = hi
    THEN update(ZeroTallies(r), cs[lo][2], cs[lo][3], cs[lo][1],
                joint_probability(r, cs[lo][2], cs[lo][3], cs[lo][1]))
    ELSE AddTallies(TalliesOf(r, cs, lo, (lo + hi) \div 2),
                    TalliesOf(r, cs, (lo + hi) \div 2 + 1, hi))

\* the output computed from registry r alone
OutputOf(r) ==
    Force(CombinationsTrait(r, powerset(KeysOf(r)), 1), LAMBDA cs :
        Force(TalliesOf(r, cs, 1, Len(cs)), LAMBDA tallies :
            [x \in DOMAIN r |->
               [gene |-> [k \in 0..2 |->
                            RDiv(tallies[x].gene[k], Sum3(tallies[x].gene))],
                trait |-> [b \in BOOLEAN |->
                            RDiv(tallies[x].trait[b], Sum2(tallies[x].trait))]]]))

SameOutput(a, b) ==
    Force(a, LAMBDA u : Force(b, LAMBDA v :
        /\ DOMAIN u = DOMAIN v
        /\ \A x \in DOMAIN u :
             /\ \A k \in 0..2 : REq(u[x].gene[k], v[x].gene[k])
             /\ \A t \in BOOLEAN : REq(u[x].trait[t], v[x].trait[t])))

\* C7: the normalized output is a function of the registry alone: whatever
\* order the subsets are listed in, whatever order the combinations are
\* accumulated in and however they are split into groups whose partial
\* tallies are summed before normalization, the output is OutputOf(people).
C7_Deterministic == pc = "done" => SameOutput(probabilities, OutputOf(people))

\* a split run is complete: both groups accumulated some combination, and the
\* sets were not listed in the order of the rows
C7_Witness ==
    /\ pc = "done"
    /\ Cardinality(names) >= 2
    /\ names_list # KeysOf(people)
    /\ split

\* main() is about to call update
Updating == pc = "two_genes" /\ tg_rest # <<>>

\* C8 (safety): normalize runs at most once and only when the enumeration is
\* over, nothing is accumulated after it, the tallies are all zero until the
\* first update and no step of the enumeration lowers a tally.
C8_Lifecycle ==
    /\ normalized <= 1
    /\ pc = "done" <=> normalized = 1 /\ pc # "ZeroDivisionError"
    /\ normalized = 1 => ht_rest = <<>> /\ calls = ValidCombinations(people)
    /\ (pc # "start" /\ calls = {}) => probabilities = ZeroTallies(people)

C8_Steps ==
    /\ normalized' # normalized =>
           /\ pc = "normalize"
           /\ normalized = 0
           /\ ht_rest = <<>>
           /\ calls' = calls
    /\ normalized >= 1 => UNCHANGED <<probabilities, calls>>
    /\ (pc \in {"have_trait", "one_gene", "two_genes"} /\ ~Updating) =>
           UNCHANGED probabilities
    /\ Updating =>
           \A x \in names :
               /\ \A k \in 0..2 :
                    RLeq(probabilities[x].gene[k], probabilities'[x].gene[k])
               /\ \A b \in BOOLEAN :
                    RLeq(probabilities[x].trait[b], probabilities'[x].trait[b])

\* C8: in every run normalize is executed exactly once and only after the
\* last update; the tallies are zero-initialized before the first update
\* and never reset between combinations; every run reaches the normalized
\* state.
C8_NormalizeOnceAtEnd ==
    /\ []C8_Lifecycle
    /\ [][C8_Steps]_vars
    /\ <>(pc = "done" /\ normalized = 1)

C8_Witness ==
    /\ pc = "done"
    /\ normalized = 1
    /\ Cardinality(names) = MaxPeople
    /\ Cardinality(calls) > 1

\* C9: one call of update adds p, for every person, to the gene-count bucket
\* of the person's assigned count and to the trait bucket of the person's
\* membership in have_trait; every other bucket keeps its value, nothing is
\* normalized and the registry and the assignment sets are unchanged.
C9_UpdateFrame ==
    [][Updating =>
         /\ RLess(RZero, p')
         /\ DOMAIN probabilities' = names
         /\ \A x \in names :
              /\ \A k \in 0..2 :
                   IF k = CountOf(x, one_gene, two_genes')
                   THEN REq(probabilities'[x].gene[k],
                            RAdd(probabilities[x].gene[k], p'))
                   ELSE probabilities'[x].gene[k] = probabilities[x].gene[k]
              /\ \A b \in BOOLEAN :
                   IF b = (x \in have_trait)
                   THEN REq(probabilities'[x].trait[b],
                            RAdd(probabilities[x].trait[b], p'))
                   ELSE probabilities'[x].trait[b] = probabilities[x].trait[b]
         /\ normalized' = normalized
         /\ people' = people
         /\ one_gene' = one_gene
         /\ have_trait' = have_trait
         /\ two_genes' = Head(tg_rest)
         /\ one_gene' \cap two_genes' = {}]_vars

\* update has just run for a combination with somebody in each of the three
\* gene-count groups and not everybody in have_trait
C9_Witness ==
    /\ pc = "two_genes"
    /\ <<have_trait, one_gene, two_genes>> \in calls
    /\ Cardinality(calls) > 1
    /\ one_gene # {}
    /\ two_genes # {}
    /\ one_gene \cup two_genes # names
    /\ have_trait # {}
    /\ have_trait # names
    /\ RLess(RZero, p)
    /\ \A x \in one_gene : RLeq(p, probabilities[x].gene[1])

\* C10: when the driver calls normalize for a valid non-empty registry,
\* every person's three gene-count tallies and two trait tallies have the
\* same, strictly positive sum, so normalize never divides by zero.
C10_PositiveTotals ==
    /\ pc # "ZeroDivisionError"
    /\ (pc = "normalize" /\ names # {}) =>
          \A x \in names :
              /\ REq(gene_norm(probabilities, x), trait_norm(probabilities, x))
              /\ RLess(RZero, gene_norm(probabilities, x))

\* normalize is about to run on the tallies of a family with evidence
C10_Witness ==
    /\ pc = "normalize"
    /\ Cardinality(names) = MaxPeople
    /\ \E x \in names : IsChild(people, x)
    /\ \E x \in names : people[x].trait = "False"
    /\ \A x \in names : RLess(RZero, trait_norm(probabilities, x))

====
